---- MODULE Spec2Model ----
(***************************************************************************)
(* Carbon (src/carbon.py): the command-line argument loop, the HH:MM:SS    *)
(* parser, and produce_output_file, which turns the recognizer's results   *)
(* into an .srt and/or a .txt document.                                    *)
(*                                                                         *)
(* Word times are kept in milliseconds (the recognizer reports seconds     *)
(* with a fractional part); intro / timer offset are whole seconds, as the *)
(* argument loop computes them.  Python strings that the code only passes  *)
(* around or concatenates are TLA+ strings; strings the code takes apart   *)
(* (the HH:MM:SS argument) are sequences of characters.                    *)
(***************************************************************************)
EXTENDS Integers, Sequences, FiniteSets, TLC

VARIABLES
    \* ---- produce_output_file: parameters
    json_object, is_srt, is_txt, has_text, has_codes,
    intro_in_seconds, timer_offset_in_seconds,
    \* ---- produce_output_file: locals and the two documents
    lines, subtitles, srt_file, txt_file,
    pc, err,
    \* ---- module level: flags, globals and the argument loop
    argc, arg_index,
    FLAG_SRT, FLAG_TXT, FLAG_REAUDIO, FLAG_NO_TEXT, FLAG_NO_CODES,
    G_OUTPUT_NAME, G_TIMER_OFFSET, G_INTRO, G_OUTRO, G_LANG, MEDIA_FILE,
    time_, time_opt

renderVars == <<json_object, is_srt, is_txt, has_text, has_codes,
                intro_in_seconds, timer_offset_in_seconds,
                lines, subtitles, srt_file, txt_file>>
argVars == <<argc, arg_index, FLAG_SRT, FLAG_TXT, FLAG_REAUDIO, FLAG_NO_TEXT,
             FLAG_NO_CODES, G_OUTPUT_NAME, G_TIMER_OFFSET, G_INTRO, G_OUTRO,
             G_LANG, MEDIA_FILE, time_, time_opt>>
vars == <<renderVars, argVars, pc, err>>

(***************************************************************************)
(* Bounds of the model.                                                    *)
(***************************************************************************)
MaxResults == 3     \* recognition results in one run
MaxWords == 2       \* words in one recognition result
MaxArgs == 8        \* command-line arguments after the program name
MaxTimeLen == 7     \* characters of an HH:MM:SS argument

(***************************************************************************)
(* The recognizer's output (the shape documented at carbon.py 198-214).    *)
(* The p-th word of the audio (p from 0) has a fixed text and span, so     *)
(* results are in temporal order as the engine emits them.  Every third    *)
(* word has zero duration (start = end).                                   *)
(***************************************************************************)
WordText(p) == CASE p % 3 = 0 -> "hello" [] p % 3 = 1 -> "world" [] OTHER -> "uh"

WordStart(p) ==
    (p \div 3) * 1000 + (CASE p % 3 = 0 -> 100 [] p % 3 = 1 -> 450 [] OTHER -> 900)

WordEnd(p) ==
    (p \div 3) * 1000 + (CASE p % 3 = 0 -> 400 [] p % 3 = 1 -> 800 [] OTHER -> 900)

FullWord(p) ==
    [conf |-> 1, word |-> WordText(p), start |-> WordStart(p), end |-> WordEnd(p)]

\* A word entry with one field missing (a malformed record from the engine).
WordWithout(p, field) ==
    [k \in {"conf", "word", "start", "end"} \ {field} |-> FullWord(p)[k]]

WordFields == {"word", "start", "end"}

\* A result's shape: -1 = no "result" key, n >= 0 = a list of n words.
Shapes == UNION {[1..n -> -1..MaxWords] : n \in 0..MaxResults}

RECURSIVE WordsBefore(_, _)
WordsBefore(shape, i) ==
    IF i <= 1 THEN 0
    ELSE WordsBefore(shape, i - 1) + (IF shape[i-1] < 0 THEN 0 ELSE shape[i-1])

\* bad = <<p, field>>: the p-th word lacks that field; p = -1: none does.
Entry(p, bad) == IF bad[1] = p THEN WordWithout(p, bad[2]) ELSE FullWord(p)

ResultOf(shape, i, bad) ==
    IF shape[i] < 0 THEN [text |-> ""]
    ELSE [result |-> [j \in 1..shape[i] |-> Entry(WordsBefore(shape, i) + j - 1, bad)],
          text |-> "t"]

JsonOf(shape, bad) == [i \in 1..Len(shape) |-> ResultOf(shape, i, bad)]

Bads == {<<-1, "word">>} \cup ((0..(MaxResults * MaxWords - 1)) \X WordFields)

JsonObjects == {JsonOf(shape, bad) : shape \in Shapes, bad \in Bads}

\* <<intro_in_seconds, timer_offset_in_seconds>> as the argument loop can set them.
Shifts == {0, 60} \X {0, 5, 24 * 3600 + 5}

(***************************************************************************)
(* String helpers: '%02d', '%03d', '%06d' and ' '.join.                    *)
(***************************************************************************)
Pad2(n) == IF n < 10 THEN "0" \o ToString(n) ELSE ToString(n)

Pad3(n) == IF n < 10 THEN "00" \o ToString(n)
           ELSE IF n < 100 THEN "0" \o ToString(n) ELSE ToString(n)

Pad6(n) == IF n < 1000 THEN "000" \o Pad3(n)
           ELSE IF n < 10000 THEN "00" \o ToString(n)
           ELSE IF n < 100000 THEN "0" \o ToString(n) ELSE ToString(n)

RECURSIVE Join(_)
Join(words) ==
    IF Len(words) = 0 THEN ""
    ELSE IF Len(words) = 1 THEN words[1]
    ELSE words[1] \o " " \o Join(Tail(words))

RECURSIVE Concat(_)
Concat(chunks) == IF Len(chunks) = 0 THEN "" ELSE chunks[1] \o Concat(Tail(chunks))

(***************************************************************************)
(* produce_output_file: aggregation (carbon.py 216-234).                   *)
(***************************************************************************)
HasResult(res) == "result" \in DOMAIN res

\* raw_words: res["result"] of every result that has the key, empty or not.
RawWords(json) ==
    LET kept == SelectSeq(json, HasResult)
    IN  [i \in 1..Len(kept) |-> kept[i].result]

\* j_["word"], j_["start"], j_["end"] raise KeyError when a key is missing.
WordComplete(j_) == WordFields \subseteq DOMAIN j_

AllComplete(raw) ==
    \A i \in 1..Len(raw) : \A j \in 1..Len(raw[i]) : WordComplete(raw[i][j])

\* lines: one list of [word, start, end] per element of raw_words.
LinesOf(raw) ==
    [i \in 1..Len(raw) |->
        [j \in 1..Len(raw[i]) |-> <<raw[i][j].word, raw[i][j].start, raw[i][j].end>>]]

NoFile == [exists |-> FALSE, writes |-> <<>>]
Opened == [exists |-> TRUE, writes |-> <<>>]

Aggregate ==
    /\ pc = "start"
    /\ AllComplete(RawWords(json_object))
    /\ lines' = LinesOf(RawWords(json_object))
    /\ pc' = "srt"
    /\ UNCHANGED <<json_object, is_srt, is_txt, has_text, has_codes,
                   intro_in_seconds, timer_offset_in_seconds,
                   subtitles, srt_file, txt_file, err, argVars>>

\* AggregateFail, had the output files been opened before the lists are built
AggregateFailOpenFirst ==
    /\ pc = "start"
    /\ ~AllComplete(RawWords(json_object))
    /\ srt_file' = (IF is_srt /\ has_codes THEN Opened ELSE srt_file)
    /\ txt_file' = (IF is_txt THEN Opened ELSE txt_file)
    /\ pc' = "error"
    /\ err' = "KeyError"
    /\ UNCHANGED <<json_object, is_srt, is_txt, has_text, has_codes,
                   intro_in_seconds, timer_offset_in_seconds, lines, subtitles,
                   argVars>>

\* A KeyError leaves the function while the lists are being built.
AggregateFail ==
    /\ pc = "start"
    /\ ~AllComplete(RawWords(json_object))
    /\ pc' = "error"
    /\ err' = "KeyError"
    /\ UNCHANGED <<renderVars, argVars>>

(***************************************************************************)
(* datetime.timedelta and the srt library, as produce_output_file uses     *)
(* them.  A timedelta is held as its total milliseconds.                   *)
(***************************************************************************)
MsPerDay == 24 * 3600 * 1000

\* str(timedelta) up to the fraction: '[D day[s], ]H:MM:SS' (hours not padded,
\* whole days split off).
TimedeltaWhole(ms) ==
    LET days == ms \div MsPerDay
        secs == (ms % MsPerDay) \div 1000
        hms  == ToString(secs \div 3600) \o ":" \o Pad2((secs % 3600) \div 60)
                    \o ":" \o Pad2(secs % 60)
    IN  IF days = 0 THEN hms
        ELSE ToString(days) \o (IF days = 1 THEN " day, " ELSE " days, ") \o hms

\* the '.%06d' microsecond part str(timedelta) appends when it is not zero
TimedeltaFraction(ms) ==
    IF ms % 1000 = 0 THEN "" ELSE "." \o Pad6((ms % 1000) * 1000)

TimedeltaStr(ms) == TimedeltaWhole(ms) \o TimedeltaFraction(ms)

\* str(timedelta(seconds=first word's start + timer offset)).split(".")[0]:
\* the only '.' of str(timedelta) opens the fraction, so the head is the whole part.
TxtTimecode(line) == TimedeltaWhole(line[1][2] + timer_offset_in_seconds * 1000)

\* srt.timedelta_to_srt_timestamp: '%02d:%02d:%02d,%03d', days folded into hours.
SrtTimestamp(ms) ==
    LET secs == ms \div 1000
    IN  Pad2(secs \div 3600) \o ":" \o Pad2((secs % 3600) \div 60) \o ":"
            \o Pad2(secs % 60) \o "," \o Pad3(ms % 1000)

\* Subtitle.to_srt with the default eol
ToSrt(sub) ==
    ToString(sub.index) \o "\n" \o SrtTimestamp(sub.start) \o " --> "
        \o SrtTimestamp(sub.end) \o "\n" \o sub.content \o "\n\n"

\* Subtitle.__lt__: (start, end, index) compared lexicographically
SubLess(a, b) ==
    \/ a.start < b.start
    \/ a.start = b.start /\ a.end < b.end
    \/ a.start = b.start /\ a.end = b.end /\ a.index < b.index

RECURSIVE InsertSorted(_, _)
InsertSorted(sub, sorted) ==
    IF Len(sorted) = 0 THEN <<sub>>
    ELSE IF SubLess(sub, sorted[1]) THEN <<sub>> \o sorted
    ELSE <<sorted[1]>> \o InsertSorted(sub, Tail(sorted))

\* sorted(subtitles); stable
RECURSIVE Sorted(_)
Sorted(subs) ==
    IF Len(subs) = 0 THEN <<>>
    ELSE InsertSorted(subs[Len(subs)], Sorted(SubSeq(subs, 1, Len(subs) - 1)))

\* srt._should_skip_sub: no content, start < 0, or start >= end.
\* Words hold no whitespace, so a content is blank only when it is empty.
ShouldSkip(sub) == sub.content = "" \/ sub.start < 0 \/ sub.start >= sub.end

\* srt.sort_and_reindex with start_index = 1 and skip = True (compose's defaults)
RECURSIVE Reindex(_, _, _)
Reindex(sorted, sub_num, skipped) ==
    IF Len(sorted) = 0 THEN <<>>
    ELSE IF ShouldSkip(sorted[1]) THEN Reindex(Tail(sorted), sub_num + 1, skipped + 1)
    ELSE <<[sorted[1] EXCEPT !.index = sub_num - skipped]>>
             \o Reindex(Tail(sorted), sub_num + 1, skipped)

SortAndReindex(subs) == Reindex(Sorted(subs), 1, 0)

\* srt.compose(subtitles): reindex = True, start_index = 1 by default
Compose(subs) ==
    LET out == SortAndReindex(subs)
    IN  Concat([i \in 1..Len(out) |-> ToSrt(out[i])])

(***************************************************************************)
(* produce_output_file: the .srt document (carbon.py 236-264).             *)
(***************************************************************************)
\* SrtActive, had the timecode flag been left out of the test
SrtActiveAnyContent == is_srt

SrtActive == is_srt /\ has_codes

\* CueStart, had the timer offset been added as in the transcript
CueStartWithOffset(line) ==
    line[1][2] + (intro_in_seconds + timer_offset_in_seconds) * 1000

\* lines[i_][0][1] + intro_in_seconds
CueStart(line) == line[1][2] + intro_in_seconds * 1000

\* lines[i_][-1][-1] + intro_in_seconds
CueEnd(line) == line[Len(line)][3] + intro_in_seconds * 1000

CueContent(line) ==
    IF has_text THEN Join([j \in 1..Len(line) |-> line[j][1]])
    ELSE "PLACE HOLDER TEXT"

\* srt.Subtitle(index=i_, ...) for i_ = i - 1
MakeSubtitle(i) ==
    [index |-> i - 1, content |-> CueContent(lines[i]),
     start |-> CueStart(lines[i]), end |-> CueEnd(lines[i])]

\* position of the first line without words, Len + 1 when there is none:
\* lines[i_][0] raises IndexError there
FirstEmpty(ls) ==
    IF \E i \in 1..Len(ls) : Len(ls[i]) = 0
    THEN CHOOSE i \in 1..Len(ls) :
            /\ Len(ls[i]) = 0
            /\ \A k \in 1..(i - 1) : Len(ls[k]) > 0
    ELSE Len(ls) + 1

SkipSrt ==
    /\ pc = "srt"
    /\ ~SrtActive
    /\ pc' = "txt"
    /\ UNCHANGED <<renderVars, argVars, err>>

RenderSrt ==
    /\ pc = "srt"
    /\ SrtActive
    /\ FirstEmpty(lines) > Len(lines)
    /\ subtitles' = [i \in 1..Len(lines) |-> MakeSubtitle(i)]
    /\ srt_file' = [exists |-> TRUE, writes |-> <<Compose(subtitles')>>]
    /\ pc' = "txt"
    /\ UNCHANGED <<json_object, is_srt, is_txt, has_text, has_codes,
                   intro_in_seconds, timer_offset_in_seconds,
                   lines, txt_file, err, argVars>>

\* The file is open (created, truncated) when the IndexError is raised.
RenderSrtFail ==
    /\ pc = "srt"
    /\ SrtActive
    /\ FirstEmpty(lines) <= Len(lines)
    /\ subtitles' = [i \in 1..(FirstEmpty(lines) - 1) |-> MakeSubtitle(i)]
    /\ srt_file' = Opened
    /\ pc' = "error"
    /\ err' = "IndexError"
    /\ UNCHANGED <<json_object, is_srt, is_txt, has_text, has_codes,
                   intro_in_seconds, timer_offset_in_seconds,
                   lines, txt_file, argVars>>

(***************************************************************************)
(* produce_output_file: the .txt document (carbon.py 266-305).             *)
(***************************************************************************)
\* TxtLineWrites, had the timecode-only branch dropped the tab after the marker
TxtLineWritesNoTab(line) ==
    IF has_codes /\ has_text
        THEN <<TxtTimecode(line), "\t", "[]\t",
               Join([j \in 1..Len(line) |-> line[j][1]]), "\n">>
    ELSE IF has_codes
        THEN <<TxtTimecode(line), "\t", "[]", "\n">>
    ELSE IF has_text
        THEN <<Join([j \in 1..Len(line) |-> line[j][1]]), "\n">>
    ELSE <<>>

\* the txt_file.write calls of one loop iteration, in order
TxtLineWrites(line) ==
    IF has_codes /\ has_text
        THEN <<TxtTimecode(line), "\t", "[]\t",
               Join([j \in 1..Len(line) |-> line[j][1]]), "\n">>
    ELSE IF has_codes
        THEN <<TxtTimecode(line), "\t", "[]\t", "\n">>
    ELSE IF has_text
        THEN <<Join([j \in 1..Len(line) |-> line[j][1]]), "\n">>
    ELSE <<>>

RECURSIVE TxtWrites(_, _)
TxtWrites(ls, n) ==
    IF n = 0 THEN <<>> ELSE TxtWrites(ls, n - 1) \o TxtLineWrites(ls[n])

SkipTxt ==
    /\ pc = "txt"
    /\ ~is_txt
    /\ pc' = "done"
    /\ UNCHANGED <<renderVars, argVars, err>>

\* Only the timecode reads lines[i_][0]; a text-only line of no words is "\n".
RenderTxt ==
    /\ pc = "txt"
    /\ is_txt
    /\ ~has_codes \/ FirstEmpty(lines) > Len(lines)
    /\ txt_file' = [exists |-> TRUE, writes |-> TxtWrites(lines, Len(lines))]
    /\ pc' = "done"
    /\ UNCHANGED <<json_object, is_srt, is_txt, has_text, has_codes,
                   intro_in_seconds, timer_offset_in_seconds,
                   lines, subtitles, srt_file, err, argVars>>

\* The lines written before the IndexError stay in the file.
RenderTxtFail ==
    /\ pc = "txt"
    /\ is_txt
    /\ has_codes /\ FirstEmpty(lines) <= Len(lines)
    /\ txt_file' = [exists |-> TRUE, writes |-> TxtWrites(lines, FirstEmpty(lines) - 1)]
    /\ pc' = "error"
    /\ err' = "IndexError"
    /\ UNCHANGED <<json_object, is_srt, is_txt, has_text, has_codes,
                   intro_in_seconds, timer_offset_in_seconds,
                   lines, subtitles, srt_file, argVars>>

(***************************************************************************)
(* One call of produce_output_file, as main makes it (carbon.py 460-469):  *)
(* at least one output type, never both contents off, shifts >= 0.         *)
(***************************************************************************)
ArgsIdle ==
    /\ argc = 1 /\ arg_index = 1
    /\ FLAG_SRT = is_srt /\ FLAG_TXT = is_txt /\ FLAG_REAUDIO = FALSE
    /\ FLAG_NO_TEXT = ~has_text /\ FLAG_NO_CODES = ~has_codes
    /\ G_OUTPUT_NAME = "out" /\ G_LANG = "en-us" /\ MEDIA_FILE = "media"
    /\ G_TIMER_OFFSET = timer_offset_in_seconds /\ G_INTRO = intro_in_seconds
    /\ G_OUTRO = 0
    /\ time_ = <<>> /\ time_opt = ""

Init ==
    /\ json_object \in JsonObjects
    /\ is_srt \in BOOLEAN /\ is_txt \in BOOLEAN
    /\ is_srt \/ is_txt
    /\ has_text \in BOOLEAN /\ has_codes \in BOOLEAN
    /\ has_text \/ has_codes
    /\ \E sh \in Shifts : intro_in_seconds = sh[1] /\ timer_offset_in_seconds = sh[2]
    /\ lines = <<>> /\ subtitles = <<>>
    /\ srt_file = NoFile /\ txt_file = NoFile
    /\ pc = "start" /\ err = ""
    /\ ArgsIdle

Next ==
    \/ Aggregate
    \/ AggregateFail
    \/ SkipSrt
    \/ RenderSrt
    \/ RenderSrtFail
    \/ SkipTxt
    \/ RenderTxt
    \/ RenderTxtFail

Spec == Init /\ [][Next]_vars

(***************************************************************************)
(* parse_time_format (carbon.py 82-102).  The argument is a sequence of    *)
(* characters.                                                             *)
(***************************************************************************)
Digits == {"0", "1", "2", "3", "4", "5", "6", "7", "8", "9"}

DigitVal(c) ==
    CASE c = "0" -> 0 [] c = "1" -> 1 [] c = "2" -> 2 [] c = "3" -> 3 [] c = "4" -> 4
      [] c = "5" -> 5 [] c = "6" -> 6 [] c = "7" -> 7 [] c = "8" -> 8 [] OTHER -> 9

\* re.split on one separator character: the fields between the separators
RECURSIVE SplitOn(_, _)
SplitOn(s, sep) ==
    IF \A k \in 1..Len(s) : s[k] # sep THEN <<s>>
    ELSE LET k == CHOOSE i \in 1..Len(s) :
                    s[i] = sep /\ \A m \in 1..(i - 1) : s[m] # sep
         IN  <<SubSeq(s, 1, k - 1)>> \o SplitOn(SubSeq(s, k + 1, Len(s)), sep)

\* str.isdigit: not empty and digits only
IsDigit(field) == Len(field) > 0 /\ \A k \in 1..Len(field) : field[k] \in Digits

\* int() of a digit string
RECURSIVE ToInt(_)
ToInt(field) ==
    IF Len(field) = 0 THEN 0
    ELSE ToInt(SubSeq(field, 1, Len(field) - 1)) * 10 + DigitVal(field[Len(field)])

\* InRange, had minutes and seconds been limited to 59
InRangeBelow60(time_list) ==
    time_list[1] <= 99 /\ time_list[2] < 60 /\ time_list[3] < 60

\* the three range tests: each fails only above its limit
InRange(time_list) ==
    time_list[1] <= 99 /\ time_list[2] <= 60 /\ time_list[3] <= 60

\* parse_time_format(t): ok = FALSE where the code calls failure()
ParseTimeFormat(t) ==
    LET _time_list == SplitOn(t, ":")
    IN  IF Len(_time_list) # 3
            THEN [ok |-> FALSE, msg |-> "TimeFormat", list |-> <<>>]
        ELSE IF \E i \in 1..3 : ~IsDigit(_time_list[i])
            THEN [ok |-> FALSE, msg |-> "NotValidTime", list |-> <<>>]
        ELSE LET ints == [i \in 1..3 |-> ToInt(_time_list[i])]
             IN  IF InRange(ints) THEN [ok |-> TRUE, msg |-> "", list |-> ints]
                 ELSE [ok |-> FALSE, msg |-> "TooHigh", list |-> <<>>]

\* int(h * 60 * 60) + int(m * 60) + int(s)
InSeconds(time_list) == time_list[1] * 60 * 60 + time_list[2] * 60 + time_list[3]

(***************************************************************************)
(* The argument loop (carbon.py 353-451).  The arguments are supplied one  *)
(* by one as the loop reads them; argc is fixed.  An option word is one    *)
(* symbol; a time or output-type value is a sequence of symbols.           *)
(***************************************************************************)
G_LANG_LIST == {"tr", "kz", "en-gb", "en-us", "en-in", "fa", "fr", "ja", "cn", "ru",
                "ua", "cs", "de", "nl", "pl", "es", "pt", "it", "vn", "ca", "ar",
                "tl-ph", "eo", "hi", "sv", "el-gr"}

LangArgs == {"en-us", "xx"}
OutputArgs == {"out", ""}
TypeArgs == {<<"srt">>, <<"txt">>, <<"SRT", "+", "txt">>, <<"srt", "+", "pdf">>}
TimeArgs == {<<"0", "0", ":", "0", "6", ":", "0", "0">>, <<"0", ":", "0">>,
             <<"0", ":", "6", "6", ":", "0">>, <<"x", ":", "0", ":", "0">>}

TimeChars == {"0", "6", "9", ":", "x"}
TimeStrings == UNION {[1..n -> TimeChars] : n \in 0..MaxTimeLen}
TimeOptions == {"--intro", "--outro", "--timer-offset"}

\* what the command line holds after a time option
TimeSupply == IF time_opt = "" THEN TimeArgs ELSE {time_}

Casefold(w) == CASE w = "SRT" -> "srt" [] w = "TXT" -> "txt" [] OTHER -> w

\* exit_if_exceeds: the option is the last argument
Exceeds == arg_index + 1 >= argc

Failure(msg) ==
    /\ pc' = "failed"
    /\ err' = msg

InLoop == pc = "args" /\ arg_index < argc

ArgHelp ==
    /\ InLoop /\ time_opt = ""
    /\ pc' = "exit"
    /\ UNCHANGED <<renderVars, argVars, err>>

ArgLang ==
    /\ InLoop /\ time_opt = ""
    /\ \E next_arg \in LangArgs :
        IF Exceeds THEN Failure("RequiresArgument") /\ UNCHANGED <<G_LANG, arg_index>>
        ELSE IF next_arg \in G_LANG_LIST
            THEN G_LANG' = next_arg /\ arg_index' = arg_index + 2
                 /\ UNCHANGED <<pc, err>>
        ELSE Failure("UnknownLanguage") /\ UNCHANGED <<G_LANG, arg_index>>
    /\ UNCHANGED <<renderVars, argc, FLAG_SRT, FLAG_TXT, FLAG_REAUDIO, FLAG_NO_TEXT,
                   FLAG_NO_CODES, G_OUTPUT_NAME, G_TIMER_OFFSET, G_INTRO, G_OUTRO,
                   MEDIA_FILE, time_, time_opt>>

ArgOutput ==
    /\ InLoop /\ time_opt = ""
    /\ \E next_arg \in OutputArgs :
        IF Exceeds
            THEN Failure("RequiresArgument") /\ UNCHANGED <<G_OUTPUT_NAME, arg_index>>
        ELSE G_OUTPUT_NAME' = next_arg /\ arg_index' = arg_index + 2
             /\ UNCHANGED <<pc, err>>
    /\ UNCHANGED <<renderVars, argc, FLAG_SRT, FLAG_TXT, FLAG_REAUDIO, FLAG_NO_TEXT,
                   FLAG_NO_CODES, G_LANG, G_TIMER_OFFSET, G_INTRO, G_OUTRO,
                   MEDIA_FILE, time_, time_opt>>

\* the type names of re.split(r'\+', arg.casefold())
TypeList(arg) ==
    LET fields == SplitOn(arg, "+")
    IN  [i \in 1..Len(fields) |->
            IF Len(fields[i]) = 1 THEN Casefold(fields[i][1]) ELSE "?"]

ArgOutputType ==
    /\ InLoop /\ time_opt = ""
    /\ \E next_arg \in TypeArgs :
        IF Exceeds
            THEN Failure("RequiresArgument") /\ UNCHANGED <<FLAG_SRT, FLAG_TXT, arg_index>>
        ELSE LET type_list == TypeList(next_arg)
                 known == \A i \in 1..Len(type_list) : type_list[i] \in {"srt", "txt"}
                 \* the names before the first unknown one have set their flag
                 seen == {type_list[i] : i \in {k \in 1..Len(type_list) :
                            \A m \in 1..k : type_list[m] \in {"srt", "txt"}}}
             IN  /\ FLAG_SRT' = (FLAG_SRT \/ "srt" \in seen)
                 /\ FLAG_TXT' = (FLAG_TXT \/ "txt" \in seen)
                 /\ IF known THEN arg_index' = arg_index + 2 /\ UNCHANGED <<pc, err>>
                    ELSE Failure("UnknownOutputType") /\ UNCHANGED arg_index
    /\ UNCHANGED <<renderVars, argc, FLAG_REAUDIO, FLAG_NO_TEXT, FLAG_NO_CODES,
                   G_OUTPUT_NAME, G_LANG, G_TIMER_OFFSET, G_INTRO, G_OUTRO,
                   MEDIA_FILE, time_, time_opt>>

ArgIntro ==
    /\ InLoop /\ time_opt \in {"", "--intro"}
    /\ FLAG_REAUDIO' = TRUE
    /\ \E next_arg \in TimeSupply :
        IF Exceeds THEN Failure("RequiresArgument") /\ UNCHANGED <<G_INTRO, arg_index>>
        ELSE LET time_list == ParseTimeFormat(next_arg)
             IN  IF time_list.ok
                     THEN G_INTRO' = InSeconds(time_list.list)
                          /\ arg_index' = arg_index + 2 /\ UNCHANGED <<pc, err>>
                 ELSE Failure(time_list.msg) /\ UNCHANGED <<G_INTRO, arg_index>>
    /\ UNCHANGED <<renderVars, argc, FLAG_SRT, FLAG_TXT, FLAG_NO_TEXT, FLAG_NO_CODES,
                   G_OUTPUT_NAME, G_LANG, G_TIMER_OFFSET, G_OUTRO,
                   MEDIA_FILE, time_, time_opt>>

ArgOutro ==
    /\ InLoop /\ time_opt \in {"", "--outro"}
    /\ FLAG_REAUDIO' = TRUE
    /\ \E next_arg \in TimeSupply :
        IF Exceeds THEN Failure("RequiresArgument") /\ UNCHANGED <<G_OUTRO, arg_index>>
        ELSE LET time_list == ParseTimeFormat(next_arg)
             IN  IF time_list.ok
                     THEN G_OUTRO' = InSeconds(time_list.list)
                          /\ arg_index' = arg_index + 2 /\ UNCHANGED <<pc, err>>
                 ELSE Failure(time_list.msg) /\ UNCHANGED <<G_OUTRO, arg_index>>
    /\ UNCHANGED <<renderVars, argc, FLAG_SRT, FLAG_TXT, FLAG_NO_TEXT, FLAG_NO_CODES,
                   G_OUTPUT_NAME, G_LANG, G_TIMER_OFFSET, G_INTRO,
                   MEDIA_FILE, time_, time_opt>>

ArgTimerOffset ==
    /\ InLoop /\ time_opt \in {"", "--timer-offset"}
    /\ \E next_arg \in TimeSupply :
        IF Exceeds
            THEN Failure("RequiresArgument") /\ UNCHANGED <<G_TIMER_OFFSET, arg_index>>
        ELSE LET time_list == ParseTimeFormat(next_arg)
             IN  IF time_list.ok
                     THEN G_TIMER_OFFSET' = InSeconds(time_list.list)
                          /\ arg_index' = arg_index + 2 /\ UNCHANGED <<pc, err>>
                 ELSE Failure(time_list.msg) /\ UNCHANGED <<G_TIMER_OFFSET, arg_index>>
    /\ UNCHANGED <<renderVars, argc, FLAG_SRT, FLAG_TXT, FLAG_REAUDIO, FLAG_NO_TEXT,
                   FLAG_NO_CODES, G_OUTPUT_NAME, G_LANG, G_INTRO, G_OUTRO,
                   MEDIA_FILE, time_, time_opt>>

\* ArgNoText, had the test of FLAG_NO_CODES been left out
ArgNoTextUnchecked ==
    /\ InLoop /\ time_opt = ""
    /\ FLAG_NO_TEXT' = TRUE /\ arg_index' = arg_index + 1 /\ UNCHANGED <<pc, err>>
    /\ UNCHANGED <<renderVars, argc, FLAG_SRT, FLAG_TXT, FLAG_REAUDIO, FLAG_NO_CODES,
                   G_OUTPUT_NAME, G_LANG, G_TIMER_OFFSET, G_INTRO, G_OUTRO,
                   MEDIA_FILE, time_, time_opt>>

ArgNoText ==
    /\ InLoop /\ time_opt = ""
    /\ IF FLAG_NO_CODES
           THEN Failure("NoTimecodesWithNoText") /\ UNCHANGED <<FLAG_NO_TEXT, arg_index>>
       ELSE FLAG_NO_TEXT' = TRUE /\ arg_index' = arg_index + 1 /\ UNCHANGED <<pc, err>>
    /\ UNCHANGED <<renderVars, argc, FLAG_SRT, FLAG_TXT, FLAG_REAUDIO, FLAG_NO_CODES,
                   G_OUTPUT_NAME, G_LANG, G_TIMER_OFFSET, G_INTRO, G_OUTRO,
                   MEDIA_FILE, time_, time_opt>>

ArgNoTimecodes ==
    /\ InLoop /\ time_opt = ""
    /\ IF FLAG_NO_TEXT
           THEN Failure("NoTextWithNoTimecodes") /\ UNCHANGED <<FLAG_NO_CODES, arg_index>>
       ELSE FLAG_NO_CODES' = TRUE /\ arg_index' = arg_index + 1 /\ UNCHANGED <<pc, err>>
    /\ UNCHANGED <<renderVars, argc, FLAG_SRT, FLAG_TXT, FLAG_REAUDIO, FLAG_NO_TEXT,
                   G_OUTPUT_NAME, G_LANG, G_TIMER_OFFSET, G_INTRO, G_OUTRO,
                   MEDIA_FILE, time_, time_opt>>

ArgReaudio ==
    /\ InLoop /\ time_opt = ""
    /\ FLAG_REAUDIO' = TRUE
    /\ arg_index' = arg_index + 1
    /\ UNCHANGED <<renderVars, argc, FLAG_SRT, FLAG_TXT, FLAG_NO_TEXT, FLAG_NO_CODES,
                   G_OUTPUT_NAME, G_LANG, G_TIMER_OFFSET, G_INTRO, G_OUTRO,
                   MEDIA_FILE, time_, time_opt, pc, err>>

ArgListLangs ==
    /\ InLoop /\ time_opt = ""
    /\ pc' = "exit"
    /\ err' = "list-langs"
    /\ UNCHANGED <<renderVars, argVars>>

\* any other argument is the media file: it must exist and not be a directory
ArgMedia ==
    /\ InLoop /\ time_opt = ""
    /\ MEDIA_FILE' = "media"
    /\ \E found \in {"file", "missing", "directory"} :
        IF found = "file" THEN arg_index' = arg_index + 1 /\ UNCHANGED <<pc, err>>
        ELSE Failure(found) /\ UNCHANGED arg_index
    /\ UNCHANGED <<renderVars, argc, FLAG_SRT, FLAG_TXT, FLAG_REAUDIO, FLAG_NO_TEXT,
                   FLAG_NO_CODES, G_OUTPUT_NAME, G_LANG, G_TIMER_OFFSET, G_INTRO,
                   G_OUTRO, time_, time_opt>>

\* after the loop: an output type, an output name and a language are required
Sufficient == (FLAG_SRT \/ FLAG_TXT) /\ G_OUTPUT_NAME # "" /\ G_LANG # ""

EndArgs ==
    /\ pc = "args" /\ arg_index >= argc /\ time_opt = ""
    /\ IF Sufficient THEN pc' = "main" /\ UNCHANGED err
       ELSE Failure("InsufficientArguments")
    /\ UNCHANGED <<renderVars, argVars>>

\* what the recognizer hands back for a short clip: one final result
FinalResults == {JsonOf(<<n>>, <<-1, "word">>) : n \in -1..MaxWords}

\* convert2wav, start_speech_recognition, then the call of produce_output_file
Main ==
    /\ pc = "main"
    /\ json_object' \in FinalResults
    /\ is_srt' = FLAG_SRT
    /\ is_txt' = FLAG_TXT
    /\ has_text' = ~FLAG_NO_TEXT
    /\ has_codes' = ~FLAG_NO_CODES
    /\ intro_in_seconds' = G_INTRO
    /\ timer_offset_in_seconds' = G_TIMER_OFFSET
    /\ pc' = "start"
    /\ UNCHANGED <<lines, subtitles, srt_file, txt_file, err, argVars>>

\* convert2wav: the intro or outro is longer than the audio
ConvertFail ==
    /\ pc = "main"
    /\ G_INTRO > 0 \/ G_OUTRO > 0
    /\ Failure("ExceedsLength")
    /\ UNCHANGED <<renderVars, argVars>>

NoCall ==
    /\ json_object = <<>>
    /\ is_srt = FALSE /\ is_txt = FALSE /\ has_text = TRUE /\ has_codes = TRUE
    /\ intro_in_seconds = 0 /\ timer_offset_in_seconds = 0
    /\ lines = <<>> /\ subtitles = <<>>
    /\ srt_file = NoFile /\ txt_file = NoFile

Defaults ==
    /\ arg_index = 1
    /\ FLAG_SRT = FALSE /\ FLAG_TXT = FALSE /\ FLAG_REAUDIO = FALSE
    /\ FLAG_NO_TEXT = FALSE /\ FLAG_NO_CODES = FALSE
    /\ G_OUTPUT_NAME = "" /\ G_TIMER_OFFSET = 0 /\ G_INTRO = 0 /\ G_OUTRO = 0
    /\ G_LANG = "" /\ MEDIA_FILE = ""
    /\ pc = "args" /\ err = ""

InitArgs ==
    /\ NoCall
    /\ Defaults
    /\ argc \in 1..(MaxArgs + 1)
    /\ time_ = <<>> /\ time_opt = ""

NextArgs ==
    \/ ArgHelp
    \/ ArgLang
    \/ ArgOutput
    \/ ArgOutputType
    \/ ArgIntro
    \/ ArgOutro
    \/ ArgTimerOffset
    \/ ArgNoText
    \/ ArgNoTimecodes
    \/ ArgReaudio
    \/ ArgListLangs
    \/ ArgMedia
    \/ EndArgs
    \/ Main
    \/ ConvertFail

SpecArgs == InitArgs /\ [][NextArgs]_vars

\* One time option followed by one value: <prog> <time_opt> <time_>
InitTime ==
    /\ NoCall
    /\ Defaults
    /\ argc = 3
    /\ time_ \in TimeStrings
    /\ time_opt \in TimeOptions

NextTime ==
    \/ ArgIntro
    \/ ArgOutro
    \/ ArgTimerOffset

SpecTime == InitTime /\ [][NextTime]_vars

(***************************************************************************)
(* Properties.                                                             *)
(***************************************************************************)
Built == pc \in {"srt", "txt", "done"} \/ err = "IndexError"

NonEmptyResult(res) == "result" \in DOMAIN res /\ Len(res.result) > 0

ExpectedUtterances(json) ==
    LET kept == SelectSeq(json, NonEmptyResult)
    IN  [i \in 1..Len(kept) |->
            [j \in 1..Len(kept[i].result) |->
                <<kept[i].result[j].word, kept[i].result[j].start,
                  kept[i].result[j].end>>]]

\* C1: once the utterances are built, they are exactly the word lists of the
\* results that carry a non-empty word list, in input order, words in order.
C1_OneUtterancePerNonEmptyResult ==
    Built => lines = ExpectedUtterances(json_object)

\* C2: no utterance with zero words exists, and rendering never reads the
\* first or last word of an empty utterance (no IndexError).
C2_NoEmptyUtterance ==
    /\ \A i \in 1..Len(lines) : Len(lines[i]) > 0
    /\ err # "IndexError"

\* C3: every cue built has start = first word's start + lead-in and
\* end = last word's end + lead-in, with or without text, whatever the timer offset.
C3_CueTimes ==
    \A k \in 1..Len(subtitles) :
        /\ subtitles[k].start = lines[k][1][2] + intro_in_seconds * 1000
        /\ subtitles[k].end = lines[k][Len(lines[k])][3] + intro_in_seconds * 1000

C3_Witness ==
    /\ pc = "done"
    /\ Len(subtitles) = 2 /\ Len(lines[1]) = 2
    /\ intro_in_seconds > 0 /\ timer_offset_in_seconds > 0
    /\ ~has_text

\* C4: the written subtitle document holds one cue per utterance, in utterance
\* order, the k-th (from 0) with index k.
C4_CuesNumberedFromZero ==
    (pc \in {"txt", "done"} /\ is_srt /\ has_codes) =>
        srt_file.writes = <<Concat([k \in 1..Len(lines) |-> ToSrt(MakeSubtitle(k))])>>

ExpectedLine(line) ==
    LET words == Join([j \in 1..Len(line) |-> line[j][1]])
    IN  IF has_codes /\ has_text
            THEN TxtTimecode(line) \o "\t" \o "[]" \o "\t" \o words \o "\n"
        ELSE IF has_codes THEN TxtTimecode(line) \o "\t" \o "[]" \o "\t" \o "\n"
        ELSE words \o "\n"

RECURSIVE ExpectedText(_, _)
ExpectedText(ls, n) ==
    IF n = 0 THEN "" ELSE ExpectedText(ls, n - 1) \o ExpectedLine(ls[n])

HHMMSS(secs) ==
    Pad2(secs \div 3600) \o ":" \o Pad2((secs % 3600) \div 60) \o ":" \o Pad2(secs % 60)

\* C6: every transcript timestamp is the zero-padded HH:MM:SS of
\* floor(start + timer offset), the hour count uncapped.
C6_TimestampHHMMSS ==
    (pc = "done" /\ is_txt /\ has_codes) =>
        LET n == IF has_text THEN 5 ELSE 4
        IN  \A k \in 1..Len(lines) :
                txt_file.writes[(k - 1) * n + 1] =
                    HHMMSS((lines[k][1][2] + timer_offset_in_seconds * 1000) \div 1000)

Malformed(json) ==
    \E i \in 1..Len(json) :
        /\ "result" \in DOMAIN json[i]
        /\ \E j \in 1..Len(json[i].result) :
                ~({"word", "start", "end"} \subseteq DOMAIN json[i].result[j])

\* C8: a word entry without word, start or end aborts the run in aggregation,
\* and in that error state neither document has been created or written.
C8_AbortBeforeOutput ==
    /\ (Malformed(json_object) /\ pc # "start") => (pc = "error" /\ err = "KeyError")
    /\ err = "KeyError" =>
            Malformed(json_object) /\ srt_file = NoFile /\ txt_file = NoFile

C8_Witness ==
    /\ err = "KeyError"
    /\ is_srt /\ is_txt /\ has_codes
    /\ Len(json_object) = 2
    /\ ~Malformed(<<json_object[1]>>)

\* C9: the two flags are never both set, and produce_output_file is never
\* called with text and timecodes both off.
C9_NeverBothDisabled ==
    /\ ~(FLAG_NO_TEXT /\ FLAG_NO_CODES)
    /\ pc \in {"start", "srt", "txt", "done"} => (has_text \/ has_codes)

C9_Witness ==
    /\ pc = "failed"
    /\ err \in {"NoTimecodesWithNoText", "NoTextWithNoTimecodes"}
    /\ FLAG_NO_TEXT \/ FLAG_NO_CODES
    /\ FLAG_SRT /\ G_LANG # ""

Colons(t) == {k \in 1..Len(t) : t[k] = ":"}

RECURSIVE Value(_, _)
Value(field, acc) ==
    IF Len(field) = 0 THEN acc
    ELSE Value(Tail(field), acc * 10 + DigitVal(field[1]))

Field(t, n) ==
    LET c1 == CHOOSE k \in Colons(t) : \A m \in Colons(t) : k <= m
        c2 == CHOOSE k \in Colons(t) : \A m \in Colons(t) : k >= m
    IN  CASE n = 1 -> SubSeq(t, 1, c1 - 1)
          [] n = 2 -> SubSeq(t, c1 + 1, c2 - 1)
          [] OTHER -> SubSeq(t, c2 + 1, Len(t))

Accepted(t) ==
    /\ Cardinality(Colons(t)) = 2
    /\ \A n \in 1..3 :
        /\ Field(t, n) # <<>>
        /\ \A k \in 1..Len(Field(t, n)) : Field(t, n)[k] \in Digits
    /\ Value(Field(t, 1), 0) <= 99
    /\ Value(Field(t, 2), 0) <= 60
    /\ Value(Field(t, 3), 0) <= 60

Handled == pc # "args" \/ arg_index # 1

Targets == <<G_INTRO, G_OUTRO, G_TIMER_OFFSET>>

\* C10: a time argument is accepted iff it is three ':'-separated digit
\* strings with hours <= 99, minutes <= 60, seconds <= 60; then the option's
\* value is hours*3600 + minutes*60 + seconds; any other string fails the run
\* with intro, outro and timer offset all unset.
C10_ParseTimeFormat ==
    Handled =>
        IF Accepted(time_)
            THEN LET v == Value(Field(time_, 1), 0) * 3600
                            + Value(Field(time_, 2), 0) * 60 + Value(Field(time_, 3), 0)
                 IN  /\ pc = "args" /\ arg_index = 3
                     /\ Targets = <<IF time_opt = "--intro" THEN v ELSE 0,
                                    IF time_opt = "--outro" THEN v ELSE 0,
                                    IF time_opt = "--timer-offset" THEN v ELSE 0>>
        ELSE pc = "failed" /\ Targets = <<0, 0, 0>>

C10_Witness ==
    /\ pc = "args" /\ arg_index = 3
    /\ time_ = <<"6", ":", "6", "0", ":", "6", "0">>
    /\ G_TIMER_OFFSET = 6 * 3600 + 60 * 60 + 60

====
